---- MODULE Spec2Model ----
(***************************************************************************)
(* Engine evaluation coordinator of chess-endgames.                        *)
(*                                                                         *)
(*   useStockfish  (hooks/useStockfish.ts): one Web Worker running the     *)
(*                  engine, the readiness flag, the busy flag, the single   *)
(*                  pending promise, the accumulator and the timer.         *)
(*   evaluateFen   : the async request function of the hook.                *)
(*   handleEvaluateKingPositions (App): the sweep over candidate squares.   *)
(*                                                                         *)
(* JavaScript runs every handler to its next await without interleaving,    *)
(* so each action below is one such run.                                    *)
(***************************************************************************)
EXTENDS Integers, Sequences, FiniteSets, TLC

(***************************************************************************)
(* Bounds of the model.                                                    *)
(***************************************************************************)
\* number of evaluateFen invocations made directly (EngineTest.handleEvaluate)
MaxCallers == 2
\* poll ceilings of the two wait loops, scaled down (the source has 50 and 200)
ReadyPollCeiling == 1
BusyPollCeiling == 1

\* number of overlapping runs of handleEvaluateKingPositions
MaxSweeps == 2

Callers == 1..MaxCallers
Sweeps == (MaxCallers + 1)..(MaxCallers + MaxSweeps)
Procs == Callers \cup Sweeps
NoCaller == 0

(***************************************************************************)
(* Optional values: the empty set is undefined/null, {v} is the value v.   *)
(***************************************************************************)
Undefined == {}
Some(v) == {v}

(***************************************************************************)
(* Engine output.  A line is a sequence of the space separated tokens of   *)
(* the message; numerals are tokens and IntOf is what parseInt returns.    *)
(***************************************************************************)
IntOf == [t \in {"3", "5", "30", "-250", "2", "-1"} |->
            CASE t = "3" -> 3 [] t = "5" -> 5 [] t = "30" -> 30
              [] t = "-250" -> 0 - 250 [] t = "2" -> 2 [] t = "-1" -> 0 - 1]

\* \d+
IsDigits(t) == t \in DOMAIN IntOf /\ IntOf[t] >= 0
\* -?\d+
IsSignedDigits(t) == t \in DOMAIN IntOf

\* message.includes('<a> <b>')
Includes2(toks, a, b) ==
    \E i \in 1..(Len(toks) - 1) : toks[i] = a /\ toks[i + 1] = b

\* message.match(/<a> <b> (-?\d+)/): the capture of the first match, or Undefined
Match3(toks, a, b) ==
    LET hits == {i \in 1..(Len(toks) - 2) :
                    toks[i] = a /\ toks[i + 1] = b /\ IsSignedDigits(toks[i + 2])}
    IN  IF hits = {} THEN Undefined
        ELSE LET i == CHOOSE j \in hits : \A k \in hits : j <= k
             IN  Some(IntOf[toks[i + 2]])

\* message.match(/depth (\d+)/) followed by parseInt, or undefined
DepthOf(toks) ==
    LET hits == {i \in 1..(Len(toks) - 1) : toks[i] = "depth" /\ IsDigits(toks[i + 1])}
    IN  IF hits = {} THEN Undefined
        ELSE LET i == CHOOSE j \in hits : \A k \in hits : j <= k
             IN  Some(IntOf[toks[i + 1]])

\* parts[1] && parts[1] !== '(none)' ? parts[1] : undefined
BestMoveOf(toks) ==
    IF Len(toks) >= 2 /\ toks[2] # "" /\ toks[2] # "(none)" THEN Some(toks[2]) ELSE Undefined

\* the lines the engine process may emit
EngineLines ==
    { <<"uciok">>,
      <<"readyok">>,
      <<"id", "name", "Stockfish">>,
      <<"info", "string", "NNUE">>,
      <<"info", "depth", "3", "score", "cp", "30">>,
      <<"info", "score", "mate", "-1">>,
      <<"bestmove", "e2e4">>,
      <<"bestmove", "(none)">> }

(***************************************************************************)
(* EvaluationResult.  src is not a field of the program's object: it       *)
(* records which searches the lines that built the object belong to.       *)
(***************************************************************************)
EmptyResult == [score |-> Undefined, mate |-> Undefined, depth |-> Undefined,
                bestMove |-> Undefined, src |-> {}]

\* { ...currentEvalRef.current }
Spread(ref) == IF ref = Undefined THEN EmptyResult ELSE (CHOOSE r \in ref : TRUE)


(***************************************************************************)
(* State.                                                                  *)
(***************************************************************************)
VARIABLES
    isReady,            \* useState isReady: the committed React state
    workerRef,          \* workerRef.current is a live Worker (FALSE: null, terminated)
    isEngineBusy,       \* isEngineBusy.current
    currentEvalRef,     \* currentEvalRef.current: Undefined or Some(result)
    currentEvalPromise, \* owner of currentEvalPromiseResolve/Reject.current, or NoCaller
    timeoutRef,         \* the armed timer of timeoutRef.current, or NoTimer
    out,                \* commands posted to the worker by the latest step
    searches,           \* engine side: searches started by go and not yet answered
    owed,               \* engine side: the replies it owes: uciok to uci, readyok to isready
    failed,             \* worker.onerror has run (not a field of the program)
    pc,                 \* per evaluateFen invocation: where it stands
    err,                \* per invocation: the error it was rejected with
    waitLoops,          \* per invocation: waitLoops of the loop it is in
    capReady,           \* per invocation: isReady as captured by its closure
    result,             \* per invocation: the value its promise resolved with
    tag                 \* per invocation: identity of the search it asks for

sessionVars == <<isReady, workerRef, isEngineBusy, currentEvalRef, currentEvalPromise,
                 timeoutRef, out, searches, owed, failed>>
callVars == <<pc, err, waitLoops, capReady, result, tag>>

NoTimer == [owner |-> NoCaller, ms |-> 0]
NoTag == NoCaller

\* the safety margin added to moveTime
TimeoutMargin == 5000
\* the movetime every caller of this repository passes
MoveTime == 1000

Cmd(c, p, ms) == [cmd |-> c, by |-> p, ms |-> ms]

\* sendCommand(command) of a closure that captured isReady = ready
SendCommand(command, ready) ==
    IF workerRef /\ ready THEN <<command>>
    ELSE IF workerRef /\ ~ready /\ command.cmd \in {"uci", "isready"} THEN <<command>>
    ELSE <<>>

\* the effect of useEffect(..., []) runs once, in the first render, where isReady is false
EffectReady == FALSE

Posted(c) == {i \in 1..Len(out) : out[i].cmd = c}

(***************************************************************************)
(* Settling a promise.                                                     *)
(***************************************************************************)
Resolved(p, value) ==
    /\ pc' = [pc EXCEPT ![p] = "resolved"]
    /\ result' = [result EXCEPT ![p] = Some(value)]
    /\ err' = err

Rejected(p, why) ==
    /\ pc' = [pc EXCEPT ![p] = "rejected"]
    /\ err' = [err EXCEPT ![p] = why]
    /\ result' = result

Settled == {"resolved", "rejected"}

(***************************************************************************)
(* worker.onmessage                                                        *)
(***************************************************************************)
\* a parser that keeps the other kind of advantage when a line sets one
InfoUpdateKeepingOther(ref, toks, t) ==
    LET currentDepth == DepthOf(toks)
        old == Spread(ref)
    IN  IF Match3(toks, "score", "cp") # Undefined
        THEN Some([old EXCEPT !.score = Match3(toks, "score", "cp"),
                              !.depth = currentDepth, !.src = old.src \cup {t}])
        ELSE IF Match3(toks, "score", "mate") # Undefined
        THEN Some([old EXCEPT !.mate = Match3(toks, "score", "mate"),
                              !.depth = currentDepth, !.src = old.src \cup {t}])
        ELSE ref

\* an info branch that starts afresh on a line without a score
InfoUpdateResetting(ref, toks, t) ==
    IF Match3(toks, "score", "cp") # Undefined \/ Match3(toks, "score", "mate") # Undefined
    THEN InfoUpdateKeepingOther(ref, toks, t)
    ELSE Undefined

\* the info branch: the accumulator after the line
InfoUpdate(ref, toks, t) ==
    LET currentDepth == DepthOf(toks)
        old == Spread(ref)
    IN  IF Includes2(toks, "score", "cp") THEN
            IF Match3(toks, "score", "cp") # Undefined
            THEN Some([old EXCEPT !.score = Match3(toks, "score", "cp"),
                                  !.mate = Undefined,
                                  !.depth = currentDepth,
                                  !.src = old.src \cup {t}])
            ELSE ref
        ELSE IF Includes2(toks, "score", "mate") THEN
            IF Match3(toks, "score", "mate") # Undefined
            THEN Some([old EXCEPT !.mate = Match3(toks, "score", "mate"),
                                  !.score = Undefined,
                                  !.depth = currentDepth,
                                  !.src = old.src \cup {t}])
            ELSE ref
        ELSE ref

\* the bestmove branch: the object handed to resolve
BestMoveOnly(ref, toks, t) ==
    [EmptyResult EXCEPT !.bestMove = BestMoveOf(toks), !.src = {t}]

BestMoveResult(ref, toks, t) ==
    IF ref # Undefined
    THEN [Spread(ref) EXCEPT !.bestMove = BestMoveOf(toks), !.src = @ \cup {t}]
    ELSE [EmptyResult EXCEPT !.bestMove = BestMoveOf(toks), !.src = {t}]

\* the search a line of the engine belongs to: one it was asked for, if any
LineTags(toks) ==
    IF toks[1] \in {"info", "bestmove"}
    THEN (IF searches = {} THEN {NoTag} ELSE searches)
    ELSE {NoTag}

\* what the engine answers to a command of the handshake
ReplyTo == [c \in {"uci", "isready"} |-> IF c = "uci" THEN "uciok" ELSE "readyok"]

OnMessage(toks, t) ==
    /\ workerRef
    /\ t \in LineTags(toks)
    /\ IF toks[1] = "info" THEN
            /\ currentEvalRef' = InfoUpdate(currentEvalRef, toks, t)
            /\ out' = <<>>
            /\ UNCHANGED <<isReady, isEngineBusy, currentEvalPromise, timeoutRef,
                           searches, callVars>>
       ELSE IF toks[1] = "bestmove" THEN
            /\ timeoutRef' = NoTimer
            /\ IF currentEvalPromise # NoCaller
               THEN Resolved(currentEvalPromise, BestMoveResult(currentEvalRef, toks, t))
               ELSE UNCHANGED <<pc, result, err>>
            /\ isEngineBusy' = FALSE
            /\ currentEvalPromise' = NoCaller
            /\ currentEvalRef' = Undefined
            /\ searches' = searches \ {t}
            /\ out' = <<>>
            /\ UNCHANGED <<isReady, waitLoops, capReady, tag>>
       ELSE IF toks = <<"uciok">> THEN
            /\ out' = SendCommand(Cmd("isready", NoCaller, 0), EffectReady)
            /\ UNCHANGED <<isReady, isEngineBusy, currentEvalRef, currentEvalPromise,
                           timeoutRef, searches, callVars>>
       ELSE IF toks = <<"readyok">> THEN
            /\ isReady' = (IF ~EffectReady THEN TRUE ELSE isReady)
            /\ isEngineBusy' = FALSE
            /\ out' = <<>>
            /\ UNCHANGED <<currentEvalRef, currentEvalPromise, timeoutRef,
                           searches, callVars>>
       ELSE
            /\ out' = <<>>
            /\ UNCHANGED <<isReady, isEngineBusy, currentEvalRef, currentEvalPromise,
                           timeoutRef, searches, callVars>>
    /\ owed' = (owed \ {toks[1]}) \cup {ReplyTo[out'[i].cmd] : i \in 1..Len(out')}
    /\ UNCHANGED <<workerRef, failed>>

(***************************************************************************)
(* worker.onerror                                                          *)
(***************************************************************************)
OnError ==
    /\ workerRef
    /\ IF currentEvalPromise # NoCaller
       THEN Rejected(currentEvalPromise, "error")
       ELSE UNCHANGED <<pc, result, err>>
    /\ timeoutRef' = NoTimer
    /\ isReady' = FALSE
    /\ isEngineBusy' = FALSE
    /\ currentEvalPromise' = NoCaller
    /\ out' = <<>>
    /\ failed' = TRUE
    /\ UNCHANGED <<workerRef, currentEvalRef, searches, owed, waitLoops, capReady, tag>>

(***************************************************************************)
(* The cleanup of the effect: unmount.                                     *)
(***************************************************************************)
Cleanup ==
    /\ workerRef
    /\ workerRef' = FALSE
    /\ timeoutRef' = NoTimer
    /\ isReady' = FALSE
    /\ isEngineBusy' = FALSE
    /\ out' = <<>>
    /\ UNCHANGED <<currentEvalRef, currentEvalPromise, searches, owed, failed, callVars>>

(***************************************************************************)
(* evaluateFen.  The three ways a run of it ends: the promise executor     *)
(* (the request is accepted), an await of wait(100), or a throw.           *)
(***************************************************************************)
\* a promise executor that arms its timer without clearing the one that is armed
AcceptKeepingTimer(p, ready, t) ==
    LET position == SendCommand(Cmd("position", p, 0), ready)
        go == SendCommand(Cmd("go", p, MoveTime), ready)
    IN  /\ isEngineBusy' = TRUE
        /\ currentEvalRef' = Undefined
        /\ currentEvalPromise' = p
        /\ timeoutRef' = IF timeoutRef # NoTimer THEN timeoutRef
                         ELSE [owner |-> p, ms |-> MoveTime + TimeoutMargin]
        /\ out' = position \o go
        /\ searches' = IF go # <<>> /\ t # NoTag THEN searches \cup {t} ELSE searches
        /\ pc' = [pc EXCEPT ![p] = "pending"]
        /\ waitLoops' = [waitLoops EXCEPT ![p] = 0]
        /\ err' = [err EXCEPT ![p] = "none"]
        /\ UNCHANGED <<owed, failed>>

Accept(p, ready, t) ==
    LET position == SendCommand(Cmd("position", p, 0), ready)
        go == SendCommand(Cmd("go", p, MoveTime), ready)
    IN  /\ isEngineBusy' = TRUE
        /\ currentEvalRef' = Undefined
        /\ currentEvalPromise' = p
        /\ timeoutRef' = [owner |-> p, ms |-> MoveTime + TimeoutMargin]
        /\ out' = position \o go
        /\ searches' = IF go # <<>> /\ t # NoTag THEN searches \cup {t} ELSE searches
        /\ pc' = [pc EXCEPT ![p] = "pending"]
        /\ waitLoops' = [waitLoops EXCEPT ![p] = 0]
        /\ err' = [err EXCEPT ![p] = "none"]
        /\ UNCHANGED <<owed, failed>>

Await(p, where, n) ==
    /\ pc' = [pc EXCEPT ![p] = where]
    /\ waitLoops' = [waitLoops EXCEPT ![p] = n]
    /\ err' = [err EXCEPT ![p] = "none"]
    /\ out' = <<>>
    /\ UNCHANGED <<isEngineBusy, currentEvalRef, currentEvalPromise, timeoutRef, searches,
                   owed, failed>>

\* a throw that also gives the engine free
ThrowFreeing(p, why) ==
    /\ pc' = [pc EXCEPT ![p] = "rejected"]
    /\ err' = [err EXCEPT ![p] = why]
    /\ waitLoops' = [waitLoops EXCEPT ![p] = 0]
    /\ out' = <<>>
    /\ isEngineBusy' = FALSE
    /\ UNCHANGED <<currentEvalRef, currentEvalPromise, timeoutRef, searches, owed, failed>>

Throw(p, why) ==
    /\ pc' = [pc EXCEPT ![p] = "rejected"]
    /\ err' = [err EXCEPT ![p] = why]
    /\ waitLoops' = [waitLoops EXCEPT ![p] = 0]
    /\ out' = <<>>
    /\ UNCHANGED <<isEngineBusy, currentEvalRef, currentEvalPromise, timeoutRef, searches,
                   owed, failed>>

\* a busy loop that lets no caller pass while an earlier one waits
BusyLoopInOrder(p, ready, t, n, ceiling) ==
    IF isEngineBusy \/ \E q \in 1..(p - 1) : pc[q] = "waitBusy"
    THEN IF n > ceiling
         THEN Throw(p, "busy")
         ELSE Await(p, "waitBusy", n + 1)
    ELSE Accept(p, ready, t)

\* while (isEngineBusy.current) { if (waitLoops++ > 200) throw ...; await wait(100) }
\* entered with waitLoops = n, followed by the promise executor
BusyLoop(p, ready, t, n, ceiling) ==
    IF isEngineBusy
    THEN IF n > ceiling
         THEN Throw(p, "busy")
         ELSE Await(p, "waitBusy", n + 1)
    ELSE Accept(p, ready, t)

\* a readiness loop that gives up one poll earlier
ReadyLoopInclusive(p, ready, t, n, ceiling, busyCeiling) ==
    IF ~ready
    THEN IF n >= ceiling
         THEN Throw(p, "ready")
         ELSE Await(p, "waitReady", n + 1)
    ELSE BusyLoop(p, ready, t, 0, busyCeiling)

\* while (!isReady) { if (waitLoops++ > 50) throw ...; await wait(100) }
\* entered with waitLoops = n, followed by the rest of evaluateFen
ReadyLoop(p, ready, t, n, ceiling, busyCeiling) ==
    IF ~ready
    THEN IF n > ceiling
         THEN Throw(p, "ready")
         ELSE Await(p, "waitReady", n + 1)
    ELSE BusyLoop(p, ready, t, 0, busyCeiling)

\* evaluateFen(fen, moveTime) of the render whose isReady is ready, up to its first await
EvaluateFen(p, ready, t) ==
    /\ capReady' = [capReady EXCEPT ![p] = ready]
    /\ tag' = [tag EXCEPT ![p] = t]
    /\ IF ~ready
       THEN ReadyLoop(p, ready, t, 0, ReadyPollCeiling, BusyPollCeiling)
       ELSE BusyLoop(p, ready, t, 0, BusyPollCeiling)

\* wait(100) of the readiness loop is over
WakeReady(p) ==
    /\ pc[p] = "waitReady"
    /\ ReadyLoop(p, capReady[p], tag[p], waitLoops[p], ReadyPollCeiling, BusyPollCeiling)
    /\ UNCHANGED <<isReady, workerRef, capReady, tag, result>>

\* wait(100) of the busy loop is over
WakeBusy(p) ==
    /\ pc[p] = "waitBusy"
    /\ BusyLoop(p, capReady[p], tag[p], waitLoops[p], BusyPollCeiling)
    /\ UNCHANGED <<isReady, workerRef, capReady, tag, result>>

\* the callback of setTimeout(..., timeoutDuration)
TimerFire ==
    /\ timeoutRef # NoTimer
    /\ IF currentEvalPromise # NoCaller
       THEN Rejected(currentEvalPromise, "timeout")
       ELSE UNCHANGED <<pc, result, err>>
    /\ isEngineBusy' = FALSE
    /\ currentEvalPromise' = NoCaller
    /\ currentEvalRef' = Undefined
    /\ out' = SendCommand(Cmd("stop", timeoutRef.owner, 0), capReady[timeoutRef.owner])
    /\ timeoutRef' = NoTimer
    /\ UNCHANGED <<isReady, workerRef, searches, owed, failed, waitLoops, capReady, tag>>

(***************************************************************************)
(* A client of the hook calls evaluateFen of the current render.  Callers  *)
(* are numbered in the order of their calls.                               *)
(***************************************************************************)
Call(c) ==
    /\ workerRef
    /\ pc[c] = "idle"
    /\ \A d \in Callers : d < c => pc[d] # "idle"
    /\ EvaluateFen(c, isReady, c)
    /\ UNCHANGED <<isReady, workerRef, result>>

(***************************************************************************)
(* Positions.  A FEN piece placement is the sequence of its characters.    *)
(***************************************************************************)
Rep(ch, n) == [i \in 1..n |-> ch]

FullRank == <<"/">> \o Rep("p", 8)
LowerRanks == FullRank \o FullRank \o FullRank \o FullRank \o FullRank \o FullRank \o FullRank

\* a position is held by its name; Fen is the text behind the name
\* 'rnbqkbnr/pppppppp/8/8/8/8/PPPPPPPP/RNBQKBNR w KQkq - 0 1', the initial currentFen
StartFen == "start"
PlacementStart ==
    <<"r", "n", "b", "q", "k", "b", "n", "r", "/">> \o Rep("p", 8)
        \o <<"/", "8", "/", "8", "/", "8", "/", "8", "/">> \o Rep("P", 8)
        \o <<"/", "R", "N", "B", "Q", "K", "B", "N", "R">>

\* the positions the board editor reports: crowded boards, so that a sweep is short
\* K1ppp3/pppppppp/... : white king a8, b8 f8 g8 h8 empty
PlacementA == <<"K", "1">> \o Rep("p", 3) \o <<"3">> \o LowerRanks
\* K1pppQ2/pppppppp/... : the same with a queen put on f8
PlacementB == <<"K", "1">> \o Rep("p", 3) \o <<"Q", "2">> \o LowerRanks

Positions == {"A w", "B b"}

\* K7/8/8/8/8/8/8/8 w - - 0 1: the White king alone, in the corner
CornerFen == "K7 w"
PlacementCorner ==
    <<"K", "7", "/", "8", "/", "8", "/", "8", "/", "8", "/", "8", "/", "8", "/", "8">>

\* positions without exactly one king: the empty board 8/8/8/8/8/8/8/8, and
\* K1k1ppp1/pppppppp/... with both kings (a8 and c8; h8 is the one empty square
\* that is not next to c8)
PlacementEmpty ==
    <<"8", "/", "8", "/", "8", "/", "8", "/", "8", "/", "8", "/", "8", "/", "8">>
PlacementTwoKings == <<"K", "1", "k", "1">> \o Rep("p", 3) \o <<"1">> \o LowerRanks
Invalid == {"empty w", "Kk w"}

\* the positions the board may show
Boards == Positions \cup {CornerFen} \cup Invalid

Fen == [id \in Boards \cup {StartFen} |->
          CASE id = "A w" -> [placement |-> PlacementA, turn |-> "w"]
            [] id = "B b" -> [placement |-> PlacementB, turn |-> "b"]
            [] id = CornerFen -> [placement |-> PlacementCorner, turn |-> "w"]
            [] id = "empty w" -> [placement |-> PlacementEmpty, turn |-> "w"]
            [] id = "Kk w" -> [placement |-> PlacementTwoKings, turn |-> "w"]
            [] id = StartFen -> [placement |-> PlacementStart, turn |-> "w"]]

DigitOf == [d \in {"1", "2", "3", "4", "5", "6", "7", "8"} |->
              CASE d = "1" -> 1 [] d = "2" -> 2 [] d = "3" -> 3 [] d = "4" -> 4
                [] d = "5" -> 5 [] d = "6" -> 6 [] d = "7" -> 7 [] d = "8" -> 8]

UpperCase == {"K", "Q", "R", "B", "N", "P"}
ToLower == [ch \in {"K", "Q", "R", "B", "N", "P", "k", "q", "r", "b", "n", "p"} |->
              CASE ch \in {"K", "k"} -> "k" [] ch \in {"Q", "q"} -> "q"
                [] ch \in {"R", "r"} -> "r" [] ch \in {"B", "b"} -> "b"
                [] ch \in {"N", "n"} -> "n" [] ch \in {"P", "p"} -> "p"]

\* `${String.fromCharCode(97 + file)}${rank + 1}`: a square is <<file 0..7, rank 1..8>>
Square(file, rank) == <<file, rank + 1>>

\* game.put(piece, square) of chess.js: a second king of one colour is refused
GamePut(game, type, color, square) ==
    IF type = "k" /\ \E q \in game : q.type = "k" /\ q.color = color /\ q.square # square
    THEN game
    ELSE {q \in game : q.square # square}
            \cup {[square |-> square, type |-> type, color |-> color]}

\* game.get(square)
GameGet(game, square) == {q \in game : q.square = square}

NoSquare == <<8, 0>>
ParseStart == [game |-> {}, piecesToPlace |-> <<>>, existingKingSquare |-> NoSquare,
               existingKingColor |-> "", file |-> 0, rank |-> 7]

\* the body of `for (const char of currentFen.split(' ')[0])` for one character
ParseChar(st, char) ==
    IF char = "/" THEN [st EXCEPT !.rank = @ - 1, !.file = 0]
    ELSE IF char \in DOMAIN DigitOf THEN [st EXCEPT !.file = @ + DigitOf[char]]
    ELSE LET square == Square(st.file, st.rank)
             color == IF char \in UpperCase THEN "w" ELSE "b"
             type == ToLower[char]
             placed == [st EXCEPT
                          !.game = GamePut(@, type, color, square),
                          !.piecesToPlace = Append(@, [square |-> square, type |-> type,
                                                       color |-> color]),
                          !.file = @ + 1]
         IN  IF type = "k"
             THEN [placed EXCEPT !.existingKingSquare = square,
                                 !.existingKingColor = color]
             ELSE placed

\* the loop over the characters from index i on.  A placement has eight ranks, so
\* the test of st.rank never ends the loop early; it makes the evaluation strict.
RECURSIVE ParsePlacement(_, _, _)
ParsePlacement(chars, i, st) ==
    IF i > Len(chars) \/ st.rank < 0 THEN st
    ELSE ParsePlacement(chars, i + 1, ParseChar(st, chars[i]))

\* the locals of handleEvaluateKingPositions after the loop over currentFen
ParseFen(fen) == ParsePlacement(fen.placement, 1, ParseStart)

\* the squares file by file: a8 a7 ... a1 b8 ... h1
AllSquaresByFile == [k \in 1..64 |-> <<(k - 1) \div 8, 8 - ((k - 1) % 8)>>]

\* allSquares: a8 b8 ... h8 a7 ... h1
AllSquares == [k \in 1..64 |-> <<(k - 1) % 8, 8 - ((k - 1) \div 8)>>]

Abs(x) == IF x < 0 THEN 0 - x ELSE x

\* a filter that leaves out the test of the squares next to the king
SkippedIfOccupied(parsed, square) ==
    \/ GameGet(parsed.game, square) # {}
    \/ square = parsed.existingKingSquare

\* the two continue tests of the loop body
Skipped(parsed, square) ==
    \/ GameGet(parsed.game, square) # {}
    \/ square = parsed.existingKingSquare
    \/ /\ Abs(square[1] - parsed.existingKingSquare[1]) <= 1
       /\ Abs(square[2] - parsed.existingKingSquare[2]) <= 1

\* the index of the first square from index from on that the loop does not skip, or 0
NextCandidate(parsed, from) ==
    LET open == {k \in from..64 : ~Skipped(parsed, AllSquares[k])}
    IN  IF open = {} THEN 0 ELSE CHOOSE k \in open : \A j \in open : k <= j

\* ParseFen of the positions of the model
Parsed == [id \in Boards |-> ParseFen(Fen[id])]

(***************************************************************************)
(* App: the sweep.                                                         *)
(***************************************************************************)
VARIABLES
    currentFen,             \* useState currentFen
    cancelEvaluationRef,    \* cancelEvaluationRef.current
    isEvaluatingKings,      \* useState isEvaluatingKings
    kingEvaluationResults,  \* useState kingEvaluationResults: square index -> result or null
    spc,                    \* per run of handleEvaluateKingPositions: idle, running, done
    sweepFen,               \* per run: currentFen as captured by the handler
    sq,                     \* per run: index in allSquares of the square under evaluation
    evaluationForThisFen,   \* per run: the keys of the local collection, which nothing reads
    cancelled,              \* the runs a position change asked to stop (not a field of the program)
    detailedEval,           \* ChessBoard overlay: the entry handed to getEvaluationEmoji
    emoji,                  \* ChessBoard overlay: the string it returned, once rendered
    stockfishInstance,      \* service module: stockfishInstance is a live worker
    isEngineReady,          \* service module: isEngineReady
    currentEvaluation,      \* service module: the call whose resolve/reject are current
    lastEvaluation,         \* service module: lastEvaluation, Undefined or Some(result)
    initializing,           \* service module: the calls that await the worker's first answer
    timeoutId,              \* per evaluatePosition call: the delay of its armed timer, or 0
    movetime,               \* per evaluatePosition call: its movetime argument
    epc,                    \* per evaluatePosition call: idle, init, pending, resolved, rejected
    sent                    \* service module: the commands posted by the last step

overlayVars == <<detailedEval, emoji>>

serviceVars == <<stockfishInstance, isEngineReady, currentEvaluation, lastEvaluation,
                 initializing, timeoutId, movetime, epc, sent>>

\* what neither the hook nor App touches
asideVars == <<overlayVars, serviceVars>>

sweepVars == <<currentFen, cancelEvaluationRef, isEvaluatingKings, kingEvaluationResults,
               spc, sweepFen, sq, evaluationForThisFen, cancelled, asideVars>>

vars == <<sessionVars, callVars, sweepVars>>

\* { ...prev, [square]: value }
Put(map, k, value) ==
    [x \in DOMAIN map \cup {k} |-> IF x = k THEN value ELSE map[x]]

\* an adjustment that turns the score only
AdjustScoreOnly(evaluation, turnOfEvaluatedFen) ==
    IF turnOfEvaluatedFen = "b"
    THEN [evaluation EXCEPT !.score = {0 - x : x \in @}]
    ELSE evaluation

\* the perspective adjustment of a resolved evaluation
Adjust(evaluation, turnOfEvaluatedFen) ==
    IF turnOfEvaluatedFen = "b"
    THEN [evaluation EXCEPT !.score = {0 - x : x \in @}, !.mate = {0 - x : x \in @}]
    ELSE evaluation

\* the object as the mapping holds it: the provenance is followed up to the caller only
Stored(evaluation) == [evaluation EXCEPT !.src = {}]

\* finally { setIsEvaluatingKings(false); cancelEvaluationRef.current = false }
\* the run is over: what its evaluateFen calls left behind is dropped
Finally(s) ==
    /\ isEvaluatingKings' = FALSE
    /\ cancelEvaluationRef' = FALSE
    /\ spc' = [spc EXCEPT ![s] = "done"]
    /\ sq' = [sq EXCEPT ![s] = 0]
    /\ cancelled' = cancelled \ {s}
    /\ pc' = [pc EXCEPT ![s] = "idle"]
    /\ err' = [err EXCEPT ![s] = "none"]
    /\ waitLoops' = [waitLoops EXCEPT ![s] = 0]
    /\ capReady' = [capReady EXCEPT ![s] = FALSE]
    /\ out' = <<>>
    /\ UNCHANGED <<isEngineBusy, currentEvalRef, currentEvalPromise, timeoutRef, searches,
                   owed, failed, tag>>

\* the for loop from index from on, up to the first await of the next evaluateFen,
\* with cancelEvaluationRef.current = cancel
\* and isEvaluatingKings = evaluating
Loop(s, parsed, from, cancel, ready, evaluating) ==
    LET k == IF cancel THEN 0 ELSE NextCandidate(parsed, from)
    IN  IF k = 0
        THEN Finally(s)
        ELSE /\ sq' = [sq EXCEPT ![s] = k]
             /\ spc' = [spc EXCEPT ![s] = "running"]
             /\ EvaluateFen(s, ready, NoTag)
             /\ isEvaluatingKings' = evaluating
             /\ cancelEvaluationRef' = cancel
             /\ UNCHANGED cancelled

\* a click on Evaluate: handleEvaluateKingPositions up to its first await
HandleEvaluateKingPositions(s) ==
    /\ workerRef
    /\ ~isEvaluatingKings
    /\ currentFen # StartFen
    /\ spc[s] = "idle"
    /\ \A r \in Sweeps : r < s => spc[r] # "idle"
    /\ sweepFen' = [sweepFen EXCEPT ![s] = currentFen]
    /\ LET parsed == Parsed[currentFen] IN
       IF parsed.existingKingSquare = NoSquare
       THEN \* the early return; the finally block runs
            Finally(s)
       ELSE Loop(s, parsed, 1, FALSE, isReady, TRUE)
    /\ UNCHANGED <<isReady, workerRef, result, currentFen, kingEvaluationResults,
                   evaluationForThisFen, asideVars>>

\* a sweep that gives up at the first settled call and records nothing
ResumeGivingUp(s) ==
    /\ spc[s] = "running"
    /\ pc[s] \in Settled
    /\ Finally(s)
    /\ result' = [result EXCEPT ![s] = Undefined]
    /\ UNCHANGED <<isReady, workerRef, currentFen, sweepFen, kingEvaluationResults,
                   evaluationForThisFen, asideVars>>

\* the continuation of `await evaluateFen(tempFen, 1000)`: the rest of the loop body
\* and the loop up to the next await
Resume(s) ==
    /\ spc[s] = "running"
    /\ pc[s] \in Settled
    /\ LET parsed == Parsed[sweepFen[s]]
           k == sq[s]
           rest == Loop(s, parsed, k + 1, cancelEvaluationRef, capReady[s], isEvaluatingKings)
       IN  IF pc[s] = "resolved"
           THEN IF cancelEvaluationRef
                THEN /\ Finally(s)
                     /\ UNCHANGED <<kingEvaluationResults, evaluationForThisFen>>
                ELSE LET adjustedEvaluation ==
                            Adjust(CHOOSE e \in result[s] : TRUE, Fen[sweepFen[s]].turn)
                     IN  /\ kingEvaluationResults' =
                                Put(kingEvaluationResults, k, Some(Stored(adjustedEvaluation)))
                         /\ evaluationForThisFen' =
                                [evaluationForThisFen EXCEPT ![s] = @ \cup {k}]
                         /\ rest
           ELSE /\ kingEvaluationResults' = Put(kingEvaluationResults, k, Undefined)
                /\ evaluationForThisFen' = [evaluationForThisFen EXCEPT ![s] = @ \cup {k}]
                /\ rest
    /\ result' = [result EXCEPT ![s] = Undefined]
    /\ UNCHANGED <<isReady, workerRef, currentFen, sweepFen, asideVars>>

\* the board editor reports a position
HandlePositionChange(fen) ==
    /\ workerRef
    /\ IF fen # currentFen
       THEN /\ cancelEvaluationRef' = TRUE
            /\ isEvaluatingKings' = FALSE
            /\ kingEvaluationResults' = <<>>
            /\ currentFen' = fen
            /\ cancelled' = cancelled \cup {s \in Sweeps : spc[s] = "running"}
       ELSE UNCHANGED <<cancelEvaluationRef, isEvaluatingKings, kingEvaluationResults,
                        currentFen, cancelled>>
    /\ UNCHANGED <<sessionVars, callVars, spc, sweepFen, sq, evaluationForThisFen,
                   asideVars>>

(***************************************************************************)
(* The service module with evaluatePosition: a worker of its own, kept in  *)
(* module variables.  The value a call is resolved with is handed to the   *)
(* caller and kept nowhere.                                                *)
(***************************************************************************)
MaxEvaluations == 2
ServiceCalls == 1..MaxEvaluations

\* movetime: number = 2000
DefaultMovetime == 2000

\* movetime + 100
ServiceMargin == 100

\* the commands initializeStockfish posts to a new worker
InitCommands ==
    <<"uci", "setoption name Hash value 128", "setoption name Threads value 4",
      "setoption name MultiPV value 1", "setoption name Move Overhead value 0",
      "setoption name Minimum Thinking Time value 0", "setoption name Slow Mover value 0",
      "isready">>

\* cleanup() of the call that is current, on behalf of call c whose timer it clears
ServiceCleanup(c) ==
    /\ timeoutId' = [timeoutId EXCEPT ![c] = 0]
    /\ currentEvaluation' = NoCaller
    /\ lastEvaluation' = Undefined

\* an executor that arms the timer with the margin of the hook
ServiceExecutorWideMargin(c, mt) ==
    /\ currentEvaluation' = c
    /\ lastEvaluation' = Undefined
    /\ sent' = <<"stop", "position fen", "go movetime">>
    /\ timeoutId' = [timeoutId EXCEPT ![c] = mt + TimeoutMargin]
    /\ epc' = [epc EXCEPT ![c] = "pending"]

\* the promise executor of evaluatePosition for call c
ServiceExecutor(c, mt) ==
    /\ currentEvaluation' = c
    /\ lastEvaluation' = Undefined
    /\ sent' = <<"stop", "position fen", "go movetime">>
    /\ timeoutId' = [timeoutId EXCEPT ![c] = mt + ServiceMargin]
    /\ epc' = [epc EXCEPT ![c] = "pending"]

\* evaluatePosition(fen, movetime) up to its first suspension
EvaluatePosition(c, mt) ==
    /\ epc[c] = "idle"
    /\ \A d \in ServiceCalls : d < c => epc[d] # "idle"
    /\ movetime' = [movetime EXCEPT ![c] = mt]
    /\ IF isEngineReady /\ stockfishInstance
       THEN \* initializeStockfish resolves at once
            /\ ServiceExecutor(c, mt)
            /\ UNCHANGED <<stockfishInstance, isEngineReady, initializing>>
       ELSE \* a new worker; an old one is told to quit and terminated
            /\ sent' = (IF stockfishInstance THEN <<"quit">> ELSE <<>>) \o InitCommands
            /\ stockfishInstance' = TRUE
            /\ isEngineReady' = FALSE
            /\ initializing' = {c}
            /\ epc' = [epc EXCEPT ![c] = "init"]
            /\ UNCHANGED <<currentEvaluation, lastEvaluation, timeoutId>>
    /\ UNCHANGED <<sessionVars, callVars, currentFen, cancelEvaluationRef, isEvaluatingKings,
                   kingEvaluationResults, spc, sweepFen, sq, evaluationForThisFen,
                   cancelled, overlayVars>>

\* message.includes('Stockfish')
NamesStockfish(toks) == \E i \in 1..Len(toks) : toks[i] = "Stockfish"

\* stockfishInstance.onmessage
ServiceOnMessage(toks) ==
    /\ stockfishInstance
    /\ IF toks = <<"readyok">> \/ NamesStockfish(toks)
       THEN /\ isEngineReady' = TRUE
            /\ initializing' = {}
            /\ IF initializing = {}
               THEN /\ sent' = <<>>
                    /\ UNCHANGED <<currentEvaluation, lastEvaluation, timeoutId, epc>>
               ELSE \* resolve(): the call that awaits initializeStockfish goes on
                    LET c == CHOOSE d \in initializing : TRUE
                    IN  ServiceExecutor(c, movetime[c])
       ELSE /\ sent' = <<>>
            /\ UNCHANGED <<isEngineReady, initializing>>
            /\ IF currentEvaluation = NoCaller
               THEN UNCHANGED <<currentEvaluation, lastEvaluation, timeoutId, epc>>
               ELSE IF toks[1] = "bestmove"
               THEN IF lastEvaluation # Undefined
                    THEN /\ ServiceCleanup(currentEvaluation)
                         /\ epc' = [epc EXCEPT ![currentEvaluation] = "resolved"]
                    ELSE UNCHANGED <<currentEvaluation, lastEvaluation, timeoutId, epc>>
               ELSE IF \/ (Includes2(toks, "score", "cp")
                                /\ Match3(toks, "score", "cp") # Undefined
                                /\ DepthOf(toks) # Undefined)
                       \/ (~Includes2(toks, "score", "cp") /\ Includes2(toks, "score", "mate")
                                /\ Match3(toks, "score", "mate") # Undefined
                                /\ DepthOf(toks) # Undefined)
               THEN \* lastEvaluation = result; resolved at once, which clears it
                    /\ ServiceCleanup(currentEvaluation)
                    /\ epc' = [epc EXCEPT ![currentEvaluation] = "resolved"]
               ELSE UNCHANGED <<currentEvaluation, lastEvaluation, timeoutId, epc>>
    /\ UNCHANGED <<stockfishInstance, movetime>>
    /\ UNCHANGED <<sessionVars, callVars, currentFen, cancelEvaluationRef, isEvaluatingKings,
                   kingEvaluationResults, spc, sweepFen, sq, evaluationForThisFen,
                   cancelled, overlayVars>>

\* stockfishInstance.onerror
ServiceOnError ==
    /\ stockfishInstance
    /\ IF currentEvaluation # NoCaller
       THEN ServiceCleanup(currentEvaluation)
       ELSE UNCHANGED <<currentEvaluation, lastEvaluation, timeoutId>>
    /\ epc' = [c \in ServiceCalls |->
                    IF c = currentEvaluation \/ c \in initializing
                    THEN "rejected" ELSE epc[c]]
    /\ initializing' = {}
    /\ sent' = <<>>
    /\ UNCHANGED <<stockfishInstance, isEngineReady, movetime>>
    /\ UNCHANGED <<sessionVars, callVars, currentFen, cancelEvaluationRef, isEvaluatingKings,
                   kingEvaluationResults, spc, sweepFen, sq, evaluationForThisFen,
                   cancelled, overlayVars>>

\* the callback of window.setTimeout(..., movetime + 100) of call c
ServiceTimerFire(c) ==
    /\ timeoutId[c] # 0
    /\ ServiceCleanup(c)
    /\ epc' = [epc EXCEPT ![c] = "rejected"]
    /\ sent' = <<>>
    /\ UNCHANGED <<stockfishInstance, isEngineReady, initializing, movetime>>
    /\ UNCHANGED <<sessionVars, callVars, currentFen, cancelEvaluationRef, isEvaluatingKings,
                   kingEvaluationResults, spc, sweepFen, sq, evaluationForThisFen,
                   cancelled, overlayVars>>

\* cleanupStockfish()
CleanupStockfish ==
    /\ stockfishInstance
    /\ IF currentEvaluation # NoCaller
       THEN /\ ServiceCleanup(currentEvaluation)
            /\ epc' = [epc EXCEPT ![currentEvaluation] = "rejected"]
       ELSE /\ currentEvaluation' = NoCaller
            /\ lastEvaluation' = Undefined
            /\ UNCHANGED <<timeoutId, epc>>
    /\ sent' = <<"quit">>
    /\ stockfishInstance' = FALSE
    /\ isEngineReady' = FALSE
    /\ initializing' = {}
    /\ UNCHANGED movetime
    /\ UNCHANGED <<sessionVars, callVars, currentFen, cancelEvaluationRef, isEvaluatingKings,
                   kingEvaluationResults, spc, sweepFen, sq, evaluationForThisFen,
                   cancelled, overlayVars>>

(***************************************************************************)
(* Specifications.                                                         *)
(***************************************************************************)
\* the state after the first render and its effect: the worker exists, 'uci' is posted
Mounted ==
    /\ isReady = FALSE
    /\ workerRef = TRUE
    /\ isEngineBusy = FALSE
    /\ currentEvalRef = Undefined
    /\ currentEvalPromise = NoCaller
    /\ timeoutRef = NoTimer
    /\ out = <<Cmd("uci", NoCaller, 0)>>
    /\ searches = {}
    /\ owed = {ReplyTo[out[i].cmd] : i \in 1..Len(out)}
    /\ failed = FALSE
    /\ pc = [p \in Procs |-> "idle"]
    /\ err = [p \in Procs |-> "none"]
    /\ waitLoops = [p \in Procs |-> 0]
    /\ capReady = [p \in Procs |-> FALSE]
    /\ result = [p \in Procs |-> Undefined]
    /\ tag = [p \in Procs |-> NoTag]
    /\ currentFen = StartFen
    /\ cancelEvaluationRef = FALSE
    /\ isEvaluatingKings = FALSE
    /\ kingEvaluationResults = <<>>
    /\ spc = [s \in Sweeps |-> "idle"]
    /\ sweepFen = [s \in Sweeps |-> StartFen]
    /\ sq = [s \in Sweeps |-> 0]
    /\ evaluationForThisFen = [s \in Sweeps |-> {}]
    /\ cancelled = {}

\* the service module is loaded: no worker yet, no evaluatePosition call made
Loaded ==
    /\ stockfishInstance = FALSE
    /\ isEngineReady = FALSE
    /\ currentEvaluation = NoCaller
    /\ lastEvaluation = Undefined
    /\ initializing = {}
    /\ timeoutId = [c \in ServiceCalls |-> 0]
    /\ movetime = [c \in ServiceCalls |-> 0]
    /\ epc = [c \in ServiceCalls |-> "idle"]
    /\ sent = <<>>

\* nothing is on the overlay
Init ==
    /\ Mounted
    /\ Loaded
    /\ detailedEval = Undefined
    /\ emoji = Undefined

\* the lines that report on a search: scores and the best move
OfSearch(toks) == toks[1] = "bestmove" \/ \E i \in 1..Len(toks) : toks[i] = "score"

\* an engine that keeps to the protocol acknowledges what it was sent, once
Conforming(toks) == toks[1] \in {"uciok", "readyok"} => toks[1] \in owed

\* the engine process emits a line; a line of a search answers a go command
EngineLine ==
    \E toks \in EngineLines, t \in searches \cup {NoTag} :
        /\ OfSearch(toks) => t # NoTag
        /\ Conforming(toks)
        /\ OnMessage(toks, t)

\* the hook with clients that call evaluateFen directly
Next ==
    \/ \E c \in Callers : Call(c) /\ UNCHANGED sweepVars
    \/ \E c \in Callers : WakeReady(c) /\ UNCHANGED sweepVars
    \/ \E c \in Callers : WakeBusy(c) /\ UNCHANGED sweepVars
    \/ TimerFire /\ UNCHANGED sweepVars
    \/ EngineLine /\ UNCHANGED sweepVars
    \/ OnError /\ UNCHANGED sweepVars
    \/ Cleanup /\ UNCHANGED sweepVars

Spec == Init /\ [][Next]_vars

\* timers fire: the waits of the poll loops and the timeout of a request
Fairness ==
    /\ \A c \in Callers : WF_vars(WakeReady(c) /\ UNCHANGED sweepVars)
    /\ \A c \in Callers : WF_vars(WakeBusy(c) /\ UNCHANGED sweepVars)
    /\ WF_vars(TimerFire /\ UNCHANGED sweepVars)

FairSpec == Init /\ [][Next]_vars /\ Fairness

\* the worker posts whatever line at whatever time: onmessage is handed every one
AnyLine == \E toks \in EngineLines, t \in searches \cup {NoTag} : OnMessage(toks, t)

\* the hook with clients that call evaluateFen directly, whatever the worker posts
AnyLineNext ==
    \/ \E c \in Callers : Call(c) /\ UNCHANGED sweepVars
    \/ \E c \in Callers : WakeReady(c) /\ UNCHANGED sweepVars
    \/ \E c \in Callers : WakeBusy(c) /\ UNCHANGED sweepVars
    \/ TimerFire /\ UNCHANGED sweepVars
    \/ AnyLine /\ UNCHANGED sweepVars
    \/ OnError /\ UNCHANGED sweepVars
    \/ Cleanup /\ UNCHANGED sweepVars

AnyLineSpec == Init /\ [][AnyLineNext]_vars

\* one caller more than Spec has, so that two can wait while a third is served; no
\* sweep runs, and the caller after the last of Callers takes the next number
QueueCallers == 1..(MaxCallers + 1)

\* the hook with that many direct callers
QueueNext ==
    \/ \E c \in QueueCallers : Call(c) /\ UNCHANGED sweepVars
    \/ \E c \in QueueCallers : WakeReady(c) /\ UNCHANGED sweepVars
    \/ \E c \in QueueCallers : WakeBusy(c) /\ UNCHANGED sweepVars
    \/ TimerFire /\ UNCHANGED sweepVars
    \/ EngineLine /\ UNCHANGED sweepVars
    \/ OnError /\ UNCHANGED sweepVars
    \/ Cleanup /\ UNCHANGED sweepVars

QueueSpec == Init /\ [][QueueNext]_vars

\* a settled promise runs the continuation that awaits it before any other event
NoMicrotask == \A s \in Sweeps : ~(spc[s] = "running" /\ pc[s] \in Settled)

\* the lines of the engine during sweeps
SweepLines ==
    { <<"uciok">>,
      <<"readyok">>,
      <<"info", "depth", "3", "score", "cp", "30">>,
      <<"info", "score", "mate", "-1">>,
      <<"bestmove", "e2e4">> }

\* the searches of the sweeps are not told apart (their calls carry NoTag): a score
\* line or a bestmove line may arrive at any time, as after a stop or a late answer
SweepEngineLine ==
    \E toks \in SweepLines, t \in searches \cup {NoTag} :
        Conforming(toks) /\ OnMessage(toks, t)

\* the hook inside App, whose only client is the sweep
SweepNext ==
    \/ \E s \in Sweeps : Resume(s)
    \/ \E s \in Sweeps : NoMicrotask /\ HandleEvaluateKingPositions(s)
    \/ \E fen \in Positions : NoMicrotask /\ HandlePositionChange(fen)
    \/ \E s \in Sweeps : NoMicrotask /\ WakeReady(s) /\ UNCHANGED sweepVars
    \/ \E s \in Sweeps : NoMicrotask /\ WakeBusy(s) /\ UNCHANGED sweepVars
    \/ NoMicrotask /\ TimerFire /\ UNCHANGED sweepVars
    \/ NoMicrotask /\ SweepEngineLine /\ UNCHANGED sweepVars
    \/ NoMicrotask /\ OnError /\ UNCHANGED sweepVars
    \/ NoMicrotask /\ Cleanup /\ UNCHANGED sweepVars

SweepSpec == Init /\ [][SweepNext]_vars

\* the ceilings of the two poll loops as the source has them
ReadyCeiling == 50
BusyCeiling == 200

\* evaluateFen of a direct caller, with those ceilings
PollCall(c) ==
    /\ workerRef
    /\ pc[c] = "idle"
    /\ \A d \in Callers : d < c => pc[d] # "idle"
    /\ capReady' = [capReady EXCEPT ![c] = isReady]
    /\ tag' = [tag EXCEPT ![c] = c]
    /\ IF ~isReady
       THEN ReadyLoop(c, isReady, c, 0, ReadyCeiling, BusyCeiling)
       ELSE BusyLoop(c, isReady, c, 0, BusyCeiling)
    /\ UNCHANGED <<isReady, workerRef, result>>

PollWakeReady(c) ==
    /\ pc[c] = "waitReady"
    /\ ReadyLoop(c, capReady[c], tag[c], waitLoops[c], ReadyCeiling, BusyCeiling)
    /\ UNCHANGED <<isReady, workerRef, capReady, tag, result>>

PollWakeBusy(c) ==
    /\ pc[c] = "waitBusy"
    /\ BusyLoop(c, capReady[c], tag[c], waitLoops[c], BusyCeiling)
    /\ UNCHANGED <<isReady, workerRef, capReady, tag, result>>

\* an engine that acknowledges and answers every search with its best move only
PollEngineLine ==
    \E toks \in {<<"uciok">>, <<"readyok">>, <<"bestmove", "e2e4">>}, t \in searches \cup {NoTag} :
        /\ OfSearch(toks) => t # NoTag
        /\ Conforming(toks)
        /\ OnMessage(toks, t)

\* the hook with direct callers and the ceilings of the source
PollNext ==
    \/ \E c \in QueueCallers : PollCall(c) /\ UNCHANGED sweepVars
    \/ \E c \in QueueCallers : PollWakeReady(c) /\ UNCHANGED sweepVars
    \/ \E c \in QueueCallers : PollWakeBusy(c) /\ UNCHANGED sweepVars
    \/ TimerFire /\ UNCHANGED sweepVars
    \/ PollEngineLine /\ UNCHANGED sweepVars

PollSpec == Init /\ [][PollNext]_vars

\* the hook with its direct callers and one run of the sweep, next to the service module
TimerNext ==
    \/ \E c \in Callers : NoMicrotask /\ Call(c) /\ UNCHANGED sweepVars
    \/ \E s \in Sweeps : Resume(s)
    \/ NoMicrotask /\ HandleEvaluateKingPositions(MaxCallers + 1)
    \/ NoMicrotask /\ HandlePositionChange("B b")
    \/ \E p \in Procs : NoMicrotask /\ WakeReady(p) /\ UNCHANGED sweepVars
    \/ \E p \in Procs : NoMicrotask /\ WakeBusy(p) /\ UNCHANGED sweepVars
    \/ NoMicrotask /\ TimerFire /\ UNCHANGED sweepVars
    \/ NoMicrotask /\ EngineLine /\ UNCHANGED sweepVars
    \/ \E mt \in {MoveTime, DefaultMovetime} : EvaluatePosition(1, mt)
    \/ \E toks \in EngineLines : ServiceOnMessage(toks)
    \/ ServiceTimerFire(1)
    \/ ServiceOnError
    \/ CleanupStockfish

TimerSpec == Init /\ [][TimerNext]_vars

\* the lines of an engine that answers every search, without scores
CornerLines == {<<"uciok">>, <<"readyok">>, <<"bestmove", "e2e4">>}

CornerEngineLine == \E toks \in CornerLines : Conforming(toks) /\ OnMessage(toks, NoTag)

\* App with the lone king in the corner on the board and a healthy engine
CornerNext ==
    \/ \E s \in Sweeps : Resume(s)
    \/ \E s \in Sweeps : NoMicrotask /\ HandleEvaluateKingPositions(s)
    \/ NoMicrotask /\ HandlePositionChange(CornerFen)
    \/ \E s \in Sweeps : NoMicrotask /\ WakeReady(s) /\ UNCHANGED sweepVars
    \/ NoMicrotask /\ CornerEngineLine /\ UNCHANGED sweepVars

CornerSpec == Init /\ [][CornerNext]_vars

\* App with boards that do not hold exactly one king
KingsNext ==
    \/ \E s \in Sweeps : Resume(s)
    \/ \E s \in Sweeps : NoMicrotask /\ HandleEvaluateKingPositions(s)
    \/ \E fen \in Invalid : NoMicrotask /\ HandlePositionChange(fen)
    \/ \E s \in Sweeps : NoMicrotask /\ WakeReady(s) /\ UNCHANGED sweepVars
    \/ \E s \in Sweeps : NoMicrotask /\ WakeBusy(s) /\ UNCHANGED sweepVars
    \/ NoMicrotask /\ TimerFire /\ UNCHANGED sweepVars
    \/ NoMicrotask /\ SweepEngineLine /\ UNCHANGED sweepVars
    \/ NoMicrotask /\ OnError /\ UNCHANGED sweepVars
    \/ NoMicrotask /\ Cleanup /\ UNCHANGED sweepVars

KingsSpec == Init /\ [][KingsNext]_vars

(***************************************************************************)
(* The overlay of ChessBoard.  The strings of getEvaluationEmoji are        *)
(* written "win" (the check mark), "loss" (the cross), "half" and "".       *)
(***************************************************************************)
MaxScore == 205
MaxMate == 2

\* a verdict function whose thresholds belong to the stronger verdict
GetEvaluationEmojiInclusive(entry) ==
    IF entry = Undefined THEN ""
    ELSE LET e == CHOOSE r \in entry : TRUE
         IN  IF (\E m \in e.mate : m # 0 /\ m > 0) \/ (\E x \in e.score : x >= 200) THEN "win"
             ELSE IF (\E m \in e.mate : m # 0 /\ m < 0) \/ (\E x \in e.score : x <= -200)
             THEN "loss"
             ELSE IF \E x \in e.score : x > -50 /\ x < 50 THEN "half"
             ELSE ""

\* getEvaluationEmoji(evaluation); `evaluation.mate && ...` is false for mate 0
GetEvaluationEmoji(entry) ==
    IF entry = Undefined THEN ""
    ELSE LET e == CHOOSE r \in entry : TRUE
         IN  IF (\E m \in e.mate : m # 0 /\ m > 0) \/ (\E x \in e.score : x > 200) THEN "win"
             ELSE IF (\E m \in e.mate : m # 0 /\ m < 0) \/ (\E x \in e.score : x < -200)
             THEN "loss"
             ELSE IF \E x \in e.score : x >= -50 /\ x <= 50 THEN "half"
             ELSE ""

\* the entries the mapping can hold: null, or a result of the hook, which carries a
\* score or a mate or neither (the info branch clears the one when it sets the other)
DetailedEvals ==
    {Undefined}
        \cup {Some([EmptyResult EXCEPT !.score = sc]) :
                    sc \in {Undefined} \cup {Some(x) : x \in (0 - MaxScore)..MaxScore}}
        \cup {Some([EmptyResult EXCEPT !.mate = Some(m)]) : m \in (0 - MaxMate)..MaxMate}

\* the overlay maps an entry of activeEvaluation to its emoji
Render ==
    /\ emoji = Undefined
    /\ emoji' = Some(GetEvaluationEmoji(detailedEval))
    /\ UNCHANGED <<sessionVars, callVars, currentFen, cancelEvaluationRef, isEvaluatingKings,
                   kingEvaluationResults, spc, sweepFen, sq, evaluationForThisFen,
                   cancelled, detailedEval, serviceVars>>

OverlayInit ==
    /\ Mounted
    /\ Loaded
    /\ detailedEval \in DetailedEvals
    /\ emoji = Undefined

OverlayNext == Render

OverlaySpec == OverlayInit /\ [][OverlayNext]_vars

(***************************************************************************)
(* Properties of the hook.                                                 *)
(***************************************************************************)
InFlight == {p \in Procs : pc[p] = "pending"}

\* C1: in every reachable state at most one accepted evaluate request is unsettled:
\* evaluateFen accepts no request while an earlier accepted one is still pending.
C1_AtMostOneInFlight == Cardinality(InFlight) <= 1

\* C2: a request that had to wait for the busy flag is eventually settled: it
\* resolves, or it is rejected by its timer, the busy ceiling or an error.
C2_BusyRequestSettles ==
    \A c \in Callers : (pc[c] = "waitBusy") ~> (pc[c] \in Settled)

\* C3: once a request has been rejected by its timer, a later request that resolves
\* resolves with a result built from the lines of its own search only.
C3_SecondEvaluateOwnResult ==
    \A d \in Callers, c \in Callers :
        (d < c /\ err[d] = "timeout" /\ pc[c] = "resolved")
            => \A r \in result[c] : r.src = {tag[c]}

\* score and mate are not both present
Exclusive(r) == ~(r.score # Undefined /\ r.mate # Undefined)

\* C4: in the accumulator, in every result delivered to a caller and in every entry
\* of kingEvaluationResults, score and mate are never both present.
C4_ScoreMateExclusive ==
    /\ \A r \in currentEvalRef : Exclusive(r)
    /\ \A p \in Procs : \A r \in result[p] : Exclusive(r)
    /\ \A k \in DOMAIN kingEvaluationResults :
            \A r \in kingEvaluationResults[k] : Exclusive(r)

\* a mate score reached the mapping of a Black-to-move position, sign adjusted,
\* and the accumulator of the next request already holds a centipawn score
C4_Witness ==
    /\ \E k \in DOMAIN kingEvaluationResults :
            \E r \in kingEvaluationResults[k] : r.mate = Some(1) /\ r.score = Undefined
    /\ \E r \in currentEvalRef : r.score = Some(30)

\* C5: a caller waiting for readiness that wakes up while the session is ready
\* goes on with its evaluation (it is accepted, or waits for the busy flag).
C5_ReadyAckWakesCaller ==
    [][\A p \in Procs :
          (pc[p] = "waitReady" /\ isReady /\ pc'[p] # "waitReady")
              => pc'[p] \in {"pending", "waitBusy"}]_vars

\* C6: the cleanup of the effect rejects the request that is pending at that moment
\* with an engine failure.
C6_TeardownRejectsPending ==
    [][(workerRef /\ ~workerRef')
          => \A p \in Procs : pc[p] = "pending" => (pc'[p] = "rejected" /\ err'[p] = "error")]_vars

\* C7: once a worker error has rejected a request the session is failed for good:
\* it is not ready again and no position or go command is posted any more.
C7_FailedIsTerminal ==
    failed
        => (~isReady /\ Posted("position") = {} /\ Posted("go") = {})

(***************************************************************************)
(* Properties of the sweep.                                                *)
(***************************************************************************)
\* C8: when a worker error has rejected the evaluate call of a running sweep, the
\* sweep ends: it makes no evaluate call for a further square.
C8_ProcessErrorAbortsSweep ==
    [][\A s \in Sweeps :
          (spc[s] = "running" /\ pc[s] = "rejected" /\ err[s] = "error")
              => spc'[s] = "done"]_vars

C10_MappingHoldsCandidatesOnly ==
    \A s \in Sweeps :
        (spc[s] = "running" /\ sweepFen[s] = currentFen)
            => /\ \A k \in DOMAIN kingEvaluationResults :
                      ~Skipped(Parsed[sweepFen[s]], AllSquares[k])
               /\ ~Skipped(Parsed[sweepFen[s]], AllSquares[sq[s]])

(***************************************************************************)
(* The board of a position, read off its text rank by rank, and the squares *)
(* on which the missing king may stand.  Cell k is the square AllSquares[k]. *)
(***************************************************************************)
\* the number of files a character of the text covers
Width(ch) == IF ch \in DOMAIN DigitOf THEN DigitOf[ch] ELSE 1

\* the index of the first character of rank row r (0 is rank 8)
RankStart(chars, r) ==
    LET slashes == {i \in 1..Len(chars) : chars[i] = "/"}
    IN  IF r = 0 THEN 1
        ELSE 1 + (CHOOSE i \in slashes : Cardinality({j \in slashes : j <= i}) = r)

\* the file on which the character at index i starts, in the rank that starts at from
RECURSIVE FileAt(_, _, _)
FileAt(chars, from, i) ==
    IF i <= from THEN 0 ELSE FileAt(chars, from, i - 1) + Width(chars[i - 1])

\* the content of cell k: a piece letter, or "" for an empty square
CellAt(chars, k) ==
    LET from == RankStart(chars, (k - 1) \div 8)
        f == (k - 1) % 8
        i == CHOOSE j \in from..Len(chars) :
                /\ \A m \in from..j : chars[m] # "/"
                /\ FileAt(chars, from, j) <= f
                /\ f < FileAt(chars, from, j) + Width(chars[j])
    IN  IF chars[i] \in DOMAIN DigitOf THEN "" ELSE chars[i]

Board == [id \in Boards |-> [k \in 1..64 |-> CellAt(Fen[id].placement, k)]]

Kings(id) == {k \in 1..64 : Board[id][k] \in {"K", "k"}}

\* the Chebyshev distance of the squares of two cells
Distance(j, k) ==
    LET df == Abs(((j - 1) % 8) - ((k - 1) % 8))
        dr == Abs(((j - 1) \div 8) - ((k - 1) \div 8))
    IN  IF df > dr THEN df ELSE dr

\* unoccupied and at distance 2 or more from the king
LegalCandidates(id) ==
    {k \in 1..64 : Board[id][k] = "" /\ \A j \in Kings(id) : Distance(j, k) >= 2}

\* C11: when a run of the sweep that no position change asked to stop comes to its
\* end, the keys of the mapping are exactly the legal candidate squares of its
\* position, each with a result or null.
C11_KeysAreTheCandidates ==
    [][\A s \in Sweeps :
          (spc[s] = "running" /\ spc'[s] = "done" /\ s \notin cancelled)
              => DOMAIN kingEvaluationResults' = LegalCandidates(sweepFen[s])]_vars

\* the sweep of the corner position has just come to its end, never asked to stop
CornerSweepEnds(s) ==
    /\ spc[s] = "running" /\ spc'[s] = "done"
    /\ s \notin cancelled
    /\ sweepFen[s] = CornerFen

C13_CancelKeepsTheEntries ==
    [][\A s \in Sweeps :
          /\ (spc[s] = "running" /\ s \notin cancelled /\ s \in cancelled')
                => kingEvaluationResults' = kingEvaluationResults
          /\ (spc[s] = "running" /\ s \in cancelled /\ pc[s] \in Settled)
                => kingEvaluationResults' = kingEvaluationResults]_vars

\* C14: a click on Evaluate with a board that does not hold exactly one king is
\* turned down before any evaluateFen call: the run is over at once, nothing is posted
\* to the worker and the state of the session is as before.
C14_KingCountIsValidated ==
    [][\A s \in Sweeps :
          (spc[s] = "idle" /\ spc'[s] # "idle" /\ Cardinality(Kings(currentFen)) # 1)
              => /\ spc'[s] = "done"
                 /\ pc'[s] = "idle"
                 /\ out' = <<>>
                 /\ UNCHANGED <<isReady, isEngineBusy, currentEvalRef, currentEvalPromise,
                                timeoutRef>>]_vars

\* what a sweep stores for a raw result: the value of a field as it is or negated
Negated(field) == {0 - x : x \in field}

\* C15: when a sweep stores the result of a resolved evaluateFen call, a position with
\* Black to move gets score and mate negated (an absent one stays absent), a position
\* with White to move gets them as they are; depth and best move are those of the
\* raw result in both cases.
C15_StoredResultIsAdjusted ==
    [][\A s \in Sweeps :
          (spc[s] = "running" /\ pc[s] = "resolved" /\ pc'[s] # "resolved"
                /\ ~cancelEvaluationRef)
              => LET raw == CHOOSE e \in result[s] : TRUE
                     black == Fen[sweepFen[s]].turn = "b"
                 IN  /\ sq[s] \in DOMAIN kingEvaluationResults'
                     /\ kingEvaluationResults'[sq[s]] # Undefined
                     /\ LET stored == CHOOSE e \in kingEvaluationResults'[sq[s]] : TRUE
                        IN  /\ stored.score = (IF black THEN Negated(raw.score) ELSE raw.score)
                            /\ stored.mate = (IF black THEN Negated(raw.mate) ELSE raw.mate)
                            /\ stored.depth = raw.depth
                            /\ stored.bestMove = raw.bestMove]_vars

\* a sweep of the position with Black to move has stored a mate of -1 as 1
C15_Witness ==
    \E s \in Sweeps :
        /\ spc[s] = "running" /\ s \notin cancelled
        /\ Fen[sweepFen[s]].turn = "b" /\ sweepFen[s] = currentFen
        /\ \E k \in evaluationForThisFen[s] :
                /\ k \in DOMAIN kingEvaluationResults
                /\ \E e \in kingEvaluationResults[k] :
                        e.mate = Some(1) /\ e.score = Undefined /\ e.bestMove = Some("e2e4")

\* C16: a cancellation that meets a call of the sweep in flight posts nothing (the
\* commands posted last are those of the step before) and leaves the session busy
\* with that call; the call of a cancelled sweep ends by a bestmove
\* line (resolved) or by the timer (rejected, the timer gone, 'stop' posted) and in no
\* other way; and once its call has ended the cancelled sweep makes no further call.
C16_CancelSparesTheCallInFlight ==
    [][\A s \in Sweeps :
          /\ (spc[s] = "running" /\ pc[s] = "pending" /\ s \notin cancelled
                    /\ s \in cancelled')
                => /\ pc'[s] = "pending" /\ isEngineBusy'
                   /\ UNCHANGED <<out, isEngineBusy, currentEvalPromise, currentEvalRef,
                                  timeoutRef>>
          /\ (spc[s] = "running" /\ s \in cancelled /\ pc[s] = "pending"
                    /\ pc'[s] # "pending")
                => \/ pc'[s] = "resolved"
                   \/ /\ pc'[s] = "rejected"
                      /\ timeoutRef # NoTimer /\ timeoutRef.owner = s /\ timeoutRef' = NoTimer
                      /\ Posted("stop")' # {}
          /\ (spc[s] = "running" /\ s \in cancelled /\ pc[s] \in Settled)
                => spc'[s] = "done"]_vars

\* the protocol-init is posted and its acknowledgement has not arrived
AwaitingProtocolAck == "uciok" \in owed

\* C17: isReady turns true only with the readyok that answers the isready posted upon
\* uciok; and while the hook waits for uciok, a step that does not bring uciok leaves
\* readiness, busy flag, pending slot, accumulator and timer as they are.
C17_ReadyOnlyByTheHandshake ==
    [][/\ (~isReady /\ isReady')
            => (~AwaitingProtocolAck /\ "readyok" \in owed /\ "readyok" \notin owed')
       /\ (AwaitingProtocolAck /\ AwaitingProtocolAck')
            => UNCHANGED <<isReady, isEngineBusy, currentEvalPromise, currentEvalRef,
                           timeoutRef>>]_vars

\* the bestmove lines of the engine
CompletionLines == {toks \in EngineLines : toks[1] = "bestmove"}

\* C18: when onmessage handles a bestmove line while a request holds the pending slot,
\* that request is resolved with score, mate and depth as the accumulator held them
\* (all absent if it held nothing) and with the token after 'bestmove' as best move,
\* absent for '(none)'; after the step the slot and the accumulator are empty, the
\* busy flag is down with readiness untouched, and the request is settled for good.
C18_BestMoveFulfilsThePending ==
    [][\A toks \in CompletionLines, t \in searches :
          (OnMessage(toks, t) /\ currentEvalPromise # NoCaller)
              => LET p == currentEvalPromise
                     value == CHOOSE r \in result'[p] : TRUE
                 IN  /\ pc[p] = "pending" /\ pc'[p] = "resolved"
                     /\ result'[p] # Undefined
                     /\ value.bestMove =
                            (IF toks[2] = "(none)" THEN Undefined ELSE Some(toks[2]))
                     /\ IF currentEvalRef = Undefined
                        THEN /\ value.score = Undefined /\ value.mate = Undefined
                             /\ value.depth = Undefined
                        ELSE \E acc \in currentEvalRef :
                                /\ value.score = acc.score /\ value.mate = acc.mate
                                /\ value.depth = acc.depth
                     /\ \A q \in Procs \ {p} : pc'[q] = pc[q] /\ result'[q] = result[q]
                     /\ currentEvalPromise' = NoCaller
                     /\ currentEvalRef' = Undefined
                     /\ ~isEngineBusy' /\ isReady' = isReady]_vars

\* one request was resolved with the score of its search and the best move, another
\* with nothing but an absent best move
C18_Witness ==
    \E p \in Callers, q \in Callers :
        /\ pc[p] = "resolved" /\ pc[q] = "resolved"
        /\ \E r \in result[p] :
                r.score = Some(30) /\ r.depth = Some(3) /\ r.bestMove = Some("e2e4")
        /\ \E r \in result[q] :
                r.score = Undefined /\ r.mate = Undefined /\ r.bestMove = Undefined
        /\ currentEvalPromise = NoCaller /\ currentEvalRef = Undefined /\ ~isEngineBusy

\* C19: the step in which a caller gives up waiting for the busy flag rejects that
\* caller alone: busy flag, pending slot, accumulator and timer are as before, nothing
\* is posted, and every other request is where it was (the one in flight still
\* pending, to be resolved by its bestmove line).
C19_BusyTimeoutTouchesTheCallerOnly ==
    [][\A p \in Callers :
          (pc[p] = "waitBusy" /\ pc'[p] = "rejected" /\ err'[p] = "busy")
              => /\ out' = <<>>
                 /\ isEngineBusy'
                 /\ UNCHANGED <<isEngineBusy, currentEvalPromise, currentEvalRef, timeoutRef,
                                isReady, workerRef, searches>>
                 /\ \A q \in Procs \ {p} :
                        pc'[q] = pc[q] /\ result'[q] = result[q] /\ err'[q] = err[q]]_vars

\* a caller gave up on the busy flag, and the request that kept the engine busy was
\* resolved with its best move afterwards
C19_Witness ==
    \E p \in Callers, q \in Callers :
        /\ pc[p] = "rejected" /\ err[p] = "busy"
        /\ pc[q] = "resolved"
        /\ \E r \in result[q] : r.bestMove = Some("e2e4") /\ q \in r.src

\* the lines that are no score line, no bestmove line and no acknowledgement
OtherLines ==
    {toks \in EngineLines :
        /\ toks[1] \notin {"bestmove", "uciok", "readyok"}
        /\ ~(toks[1] = "info" /\ \E i \in 1..(Len(toks) - 1) :
                                    toks[i] = "score" /\ toks[i + 1] \in {"cp", "mate"})}

\* C20: when onmessage handles a line that is no score line, no bestmove line and no
\* acknowledgement, readiness, busy flag, pending slot, accumulator and timer are as
\* before, nothing is posted and no request moves.
C20_OtherLinesAreIgnored ==
    [][\A toks \in OtherLines, t \in searches \cup {NoTag} :
          OnMessage(toks, t)
              => /\ out' = <<>>
                 /\ UNCHANGED <<isReady, isEngineBusy, currentEvalPromise, currentEvalRef,
                                timeoutRef, workerRef, pc, result, err>>]_vars

\* a line is handled (nothing was posted) while a request is pending with its timer
\* armed and a score in the accumulator: the state the other lines leave as it is
C20_Witness ==
    /\ OtherLines # {}
    /\ out = <<>>
    /\ workerRef /\ isReady /\ isEngineBusy
    /\ currentEvalPromise # NoCaller /\ pc[currentEvalPromise] = "pending"
    /\ timeoutRef # NoTimer
    /\ \E acc \in currentEvalRef : acc.score = Some(30) /\ acc.depth = Some(3)

\* the score and the mate of the entry on the overlay, absent for null
ScoreShown == UNION {e.score : e \in detailedEval}
MateShown == UNION {e.mate : e \in detailedEval}

\* C21: the emoji rendered for an entry is the check mark exactly when mate > 0 or
\* score > 200, the cross exactly when mate < 0 or score < -200, the half exactly when
\* the score is within -50..50, and the empty string in every other case (null, no
\* score and no mate, mate 0, score in 51..200 or -200..-51); it is one of the four.
C21_VerdictThresholds ==
    \A shown \in emoji :
        LET fixed == (\E m \in MateShown : m > 0) \/ (\E x \in ScoreShown : x > 200)
            placed == (\E m \in MateShown : m < 0) \/ (\E x \in ScoreShown : x < -200)
            drawish == \E x \in ScoreShown : -50 <= x /\ x <= 50
        IN  /\ shown \in {"win", "loss", "half", ""}
            /\ (shown = "win") <=> fixed
            /\ (shown = "loss") <=> placed
            /\ (shown = "half") <=> drawish
            /\ (shown = "") <=> (~fixed /\ ~placed /\ ~drawish)

\* a score of exactly 200 is on the overlay and rendered as the empty string
C21_Witness == ScoreShown = {200} /\ emoji = Some("")

\* two callers wait for the busy flag, which is clear: q has waited since before p called
Racing(q, p) ==
    /\ q < p
    /\ pc[q] = "waitBusy" /\ pc[p] = "waitBusy"
    /\ workerRef /\ ~isEngineBusy

\* C22: waiting callers are not served in the order of their arrival: when the flag is
\* clear and the wait of the later caller ends first, the later caller is accepted (its
\* request takes the pending slot and the flag) while the earlier one still waits.
C22_LaterWaiterMayOvertake ==
    [][\A q \in QueueCallers, p \in QueueCallers :
          (Racing(q, p) /\ pc'[p] # "waitBusy")
              => /\ pc'[p] = "pending"
                 /\ currentEvalPromise' = p /\ isEngineBusy'
                 /\ pc'[q] = "waitBusy"]_vars

\* both wait with the flag clear, and the step in which the later caller is accepted
\* ahead of the earlier one can be taken
C22_Witness ==
    \E q \in QueueCallers, p \in QueueCallers :
        /\ Racing(q, p)
        /\ waitLoops[q] > 0 /\ waitLoops[p] > 0
        /\ ENABLED (/\ WakeBusy(p) /\ UNCHANGED sweepVars
                    /\ pc'[p] = "pending" /\ pc'[q] = "waitBusy")

\* the evaluateFen calls a run has made: one per key of its local collection (a result
\* or null) and the one it is in
CallsIssued(s) ==
    Cardinality(evaluationForThisFen[s]) + (IF spc[s] = "running" THEN 1 ELSE 0)

\* C23: a run of the sweep makes at most 62 evaluateFen calls, one after the other: it
\* enters evaluateFen for a square only at its start or when its call for the square
\* before has been resolved or rejected, and the square does not change while the call
\* is waiting or pending.
C23_AtMost62CallsInSequence ==
    /\ [](\A s \in Sweeps : CallsIssued(s) <= 62)
    /\ [][\A s \in Sweeps :
             /\ (sq'[s] # sq[s] /\ sq'[s] # 0)
                    => /\ spc[s] = "idle" \/ pc[s] \in Settled
                       /\ sq'[s] > sq[s]
                       /\ pc'[s] \in {"waitReady", "waitBusy", "pending", "rejected"}
             /\ (spc[s] = "running" /\ pc[s] \notin Settled) => sq'[s] = sq[s]]_vars

\* the call for the last of the 60 candidates of the corner position is in flight
C23_Witness ==
    \E s \in Sweeps :
        /\ spc[s] = "running" /\ pc[s] = "pending" /\ sweepFen[s] = CornerFen
        /\ CallsIssued(s) = 60
        /\ sq[s] = 64

\* the request of caller p is accepted in this step
Accepted(p) == pc[p] # "pending" /\ pc'[p] = "pending"

\* C24: the step that accepts a call posts the position command and then the go
\* command with the movetime asked for, each once and nothing else; the busy flag is
\* up for as long as the request is pending; and a step that accepts no call posts
\* neither a position nor a go command.
C24_AcceptedCallPostsPositionThenGo ==
    /\ [](\A p \in Callers : pc[p] = "pending" => isEngineBusy)
    /\ [][/\ \A p \in Callers :
                Accepted(p) => /\ out' = <<Cmd("position", p, 0), Cmd("go", p, MoveTime)>>
                               /\ isEngineBusy'
          /\ (\A p \in Callers : ~Accepted(p))
                => (out' = out \/ (Posted("position")' = {} /\ Posted("go")' = {}))]_vars

\* an evaluateFen call of the hook, direct or of the sweep, is accepted in this step
HookAccepts(p) == pc[p] # "pending" /\ pc'[p] = "pending"

\* an evaluatePosition call of the service module is accepted in this step
ServiceAccepts(c) == epc[c] # "pending" /\ epc'[c] = "pending"

\* C25 as stated: every accepted call, of the hook (direct or of the sweep) and of the
\* service module alike, arms a timer of its time budget plus 5000 ms.
C25_EveryTimerIsBudgetPlus5000 ==
    [][/\ \A p \in Procs :
            HookAccepts(p) => timeoutRef' = [owner |-> p, ms |-> MoveTime + 5000]
       /\ \A c \in ServiceCalls :
            ServiceAccepts(c) => timeoutId'[c] = movetime'[c] + 5000]_vars

\* C25 amended: every accepted evaluateFen call of the hook, direct or of the sweep,
\* arms a timer of its movetime plus 5000 ms; every accepted evaluatePosition call of
\* the service module arms a timer of its movetime plus 100 ms.
C25_TimerIsBudgetPlusMargin ==
    [][/\ \A p \in Procs :
            HookAccepts(p) => timeoutRef' = [owner |-> p, ms |-> MoveTime + 5000]
       /\ \A c \in ServiceCalls :
            ServiceAccepts(c) => timeoutId'[c] = movetime'[c] + 100]_vars

\* a call of the sweep holds the timer of the hook, armed with 6000 ms, while a call
\* of the service module with the default movetime has its timer armed with 2100 ms
C25_Witness ==
    /\ timeoutRef # NoTimer /\ timeoutRef.owner \in Sweeps /\ timeoutRef.ms = 6000
    /\ pc[timeoutRef.owner] = "pending"
    /\ \E c \in ServiceCalls :
            epc[c] = "pending" /\ movetime[c] = DefaultMovetime /\ timeoutId[c] = 2100

\* C26: a caller in the readiness loop has polled at most 51 times and one in the busy
\* loop at most 201 times; the readiness loop throws exactly when the caller wakes from
\* its 51st poll (more than 50), the busy loop exactly when the caller wakes from its
\* 201st poll (more than 200) with the flag still up.
C26_PollCeilings ==
    /\ [](\A p \in QueueCallers :
            /\ pc[p] = "waitReady" => (waitLoops[p] >= 1 /\ waitLoops[p] <= 51)
            /\ pc[p] = "waitBusy" => (waitLoops[p] >= 1 /\ waitLoops[p] <= 201))
    /\ [][\A p \in QueueCallers :
            /\ (pc[p] = "waitReady" /\ pc'[p] # "waitReady")
                    => (waitLoops[p] = 51 /\ pc'[p] = "rejected" /\ err'[p] = "ready")
            /\ (pc[p] = "waitReady" /\ pc'[p] = "waitReady" /\ waitLoops'[p] # waitLoops[p])
                    => (waitLoops[p] <= 50 /\ waitLoops'[p] = waitLoops[p] + 1)
            /\ (pc[p] = "waitBusy" /\ pc'[p] = "rejected")
                    => (waitLoops[p] = 201 /\ isEngineBusy /\ err'[p] = "busy")
            /\ (pc[p] = "waitBusy" /\ pc'[p] = "waitBusy" /\ waitLoops'[p] # waitLoops[p])
                    => (waitLoops[p] <= 200 /\ isEngineBusy
                            /\ waitLoops'[p] = waitLoops[p] + 1)]_vars

\* one caller has given up on readiness and another on the busy flag
C26_Witness ==
    \E p \in QueueCallers, q \in QueueCallers :
        /\ pc[p] = "rejected" /\ err[p] = "ready"
        /\ pc[q] = "rejected" /\ err[q] = "busy"

\* C27: while a run of the sweep is under way, an entry that run has recorded stays
\* as it is: its key is not removed and its value is not changed before the run ends;
\* and the entry for a square is recorded in the step that takes up the settled call.
C27_MappingOnlyGrows ==
    [][\A s \in Sweeps :
        spc[s] = "running" =>
            /\ \A k \in evaluationForThisFen[s] \cap DOMAIN kingEvaluationResults :
                    /\ k \in DOMAIN kingEvaluationResults'
                    /\ kingEvaluationResults'[k] = kingEvaluationResults[k]
            /\ (pc[s] \in Settled /\ s \notin cancelled /\ pc'[s] # pc[s])
                    => sq[s] \in DOMAIN kingEvaluationResults']_vars

\* square a comes before square b when the board is read from rank 8 down to rank 1
\* and from file a to file h within a rank
Before(a, b) == a[2] > b[2] \/ (a[2] = b[2] /\ a[1] < b[1])

\* the squares run s has called evaluateFen for
SquaresIssued(s) ==
    {AllSquares[k] : k \in evaluationForThisFen[s] \cup (IF spc[s] = "running" THEN {sq[s]} ELSE {})}

\* S holds the first squares of T
Segment(S, T) == S \subseteq T /\ \A y \in S, x \in T \ S : Before(y, x)

\* C28: the squares a run has called evaluateFen for are the squares of its position
\* that are not skipped, up to the square of the call under way, in the order rank 8
\* down to rank 1 and file a to file h; every next call is for a later square of that
\* order; and of two runs on the same position one has issued the first calls of the
\* other.
C28_FixedVisitingOrder ==
    /\ [](\A s \in Sweeps :
            spc[s] = "running" =>
                LET cur == AllSquares[sq[s]]
                IN  SquaresIssued(s) =
                        {x \in (0..7) \X (1..8) : /\ ~Skipped(Parsed[sweepFen[s]], x)
                                       /\ (x = cur \/ Before(x, cur))})
    /\ [](\A s \in Sweeps, r \in Sweeps :
            (spc[s] # "idle" /\ spc[r] # "idle" /\ sweepFen[s] = sweepFen[r])
                => (Segment(SquaresIssued(s), SquaresIssued(r))
                        \/ Segment(SquaresIssued(r), SquaresIssued(s))))
    /\ [][\A s \in Sweeps :
            (spc[s] = "running" /\ spc'[s] = "running" /\ sq'[s] # sq[s])
                => Before(AllSquares[sq[s]], AllSquares[sq'[s]])]_vars

\* a run of the corner position has made its 60 calls, and a second run of the same
\* position has gone through rank 8 and is below it
C28_Witness ==
    \E s \in Sweeps, r \in Sweeps :
        /\ s # r /\ sweepFen[s] = CornerFen /\ sweepFen[r] = CornerFen
        /\ spc[s] = "done" /\ Cardinality(SquaresIssued(s)) = 60
        /\ spc[r] = "running" /\ AllSquares[sq[r]][2] < 8
        /\ Cardinality(SquaresIssued(r)) > 6

(***************************************************************************)
(* The position a run of the sweep hands to evaluateFen.                   *)
(***************************************************************************)
\* pieces.forEach(p => game.put(p.piece, p.square)), from piece i on.  A board has 64
\* squares, so the test of the game never ends the loop early; it makes the
\* evaluation strict.
RECURSIVE PutAll(_, _, _)
PutAll(game, pieces, i) ==
    IF i > Len(pieces) \/ Cardinality(game) > 64 THEN game
    ELSE PutAll(GamePut(game, pieces[i].type, pieces[i].color, pieces[i].square), pieces, i + 1)

\* the letter of a piece in a FEN text
Letter(piece) ==
    IF piece.color = "w" THEN CHOOSE ch \in UpperCase : ToLower[ch] = piece.type
    ELSE piece.type

\* the digit for a run of n empty squares
DigitChar(n) == CHOOSE d \in DOMAIN DigitOf : DigitOf[d] = n

\* the piece placement of game.fen() from cell k on, with empty squares counted
\* since the last piece or rank end (never more than 8: the test makes the
\* evaluation strict)
RECURSIVE PlacementFrom(_, _, _)
PlacementFrom(game, k, empty) ==
    IF k > 64 \/ empty > 8 THEN <<>>
    ELSE LET here == GameGet(game, AllSquares[k])
             count == IF here = {} THEN empty + 1 ELSE 0
             digits == IF here # {} /\ empty > 0 THEN <<DigitChar(empty)>>
                       ELSE IF here = {} /\ k % 8 = 0 THEN <<DigitChar(count)>>
                       ELSE <<>>
             letter == IF here = {} THEN <<>> ELSE <<Letter(CHOOSE q \in here : TRUE)>>
             slash == IF k % 8 = 0 /\ k < 64 THEN <<"/">> ELSE <<>>
         IN  digits \o letter \o slash
                \o PlacementFrom(game, k + 1, IF k % 8 = 0 THEN 0 ELSE count)

\* game.fen() of a game that was cleared and had pieces put on it: the six fields
GameFen(game) == <<PlacementFrom(game, 1, 0), "w", "-", "-", "0", "1">>

\* createFenFromPieces(pieces, turn), the six fields of the text it joins
CreateFenFromPieces(pieces, turn) ==
    LET fenParts == GameFen(PutAll({}, pieces, 1))
    IN  [fenParts EXCEPT ![2] = turn, ![3] = "-", ![4] = "-", ![5] = "0", ![6] = "1"]

\* tempFen of the loop body of run s, for the square of the call under way
TempFen(s) ==
    LET parsed == Parsed[sweepFen[s]]
        missingKingColor == IF parsed.existingKingColor = "w" THEN "b" ELSE "w"
        tempPieces == Append(parsed.piecesToPlace,
                             [square |-> AllSquares[sq[s]], type |-> "k",
                              color |-> missingKingColor])
    IN  CreateFenFromPieces(tempPieces, Fen[sweepFen[s]].turn)

\* the letter of the king the board of position id lacks, if it lacks one
MissingKings(id) == {ch \in {"K", "k"} : \A k \in 1..64 : Board[id][k] # ch}

\* C29: the position a run of the sweep hands to evaluateFen holds the pieces of the
\* position the run was started on and, on the square of the call, a king of the colour
\* that position has no king of; its side to move is that of the position the run was
\* started on; its castling and en-passant fields are '-', its halfmove clock is 0 and
\* its fullmove number 1; and every go command posted for a run has movetime 1000.
C29_SynthesizedPosition ==
    /\ \A s \in Sweeps :
        spc[s] = "running" =>
            LET tempFen == TempFen(s)
            IN  /\ \E king \in MissingKings(sweepFen[s]) :
                        \A k \in 1..64 :
                            CellAt(tempFen[1], k) =
                                IF k = sq[s] THEN king ELSE Board[sweepFen[s]][k]
                /\ tempFen[2] = Fen[sweepFen[s]].turn
                /\ tempFen[3] = "-" /\ tempFen[4] = "-"
                /\ tempFen[5] = "0" /\ tempFen[6] = "1"
    /\ \A i \in DOMAIN out :
            (out[i].cmd = "go" /\ out[i].by \in Sweeps) => out[i].ms = 1000

\* the searches of the requests made before that of c and rejected by their timers
TimedOutBefore(c) == {tag[d] : d \in {x \in Callers : x < c /\ err[x] = "timeout"}}

\* C30: no line of the search of an earlier request that was rejected by its timer has
\* a part in the result a later request is resolved with, nor in the accumulator while
\* a later request is pending.
C30_NoStaleLineInALaterResult ==
    /\ \A c \in Callers : \A r \in result[c] : r.src \cap TimedOutBefore(c) = {}
    /\ currentEvalPromise \in Callers =>
            \A r \in currentEvalRef : r.src \cap TimedOutBefore(currentEvalPromise) = {}

\* run s takes up its settled call in this step
TakesUp(s) == spc[s] = "running" /\ pc[s] \in Settled /\ pc'[s] # pc[s]

\* C31: a running sweep that a position change has asked to stop makes no further
\* evaluateFen call and writes no further entry into the mapping, whatever has
\* happened to the flag since.
C31_CancelledSweepStops ==
    [][\A s \in Sweeps :
        (s \in cancelled /\ TakesUp(s))
            => /\ spc'[s] # "running"
               /\ kingEvaluationResults' = kingEvaluationResults]_vars

\* the runs of the sweep whose loop has not come to its end
Running == {s \in Sweeps : spc[s] = "running"}

\* C32: at most one run of the sweep is under way at any time, a run is started only
\* when no other is under way, and an entry written into the mapping comes from a run
\* of the position on the board.
C32_OneSweepAtATime ==
    /\ [](Cardinality(Running) <= 1)
    /\ [][\A s \in Sweeps :
            /\ (spc[s] = "idle" /\ spc'[s] = "running") => Running = {}
            /\ (TakesUp(s) /\ kingEvaluationResults' # kingEvaluationResults)
                    => sweepFen[s] = currentFen]_vars

\* C33: the busy flag is up exactly when a request holds the pending slot, and an
\* accepted request keeps the slot until it is settled: the slot is not handed to
\* another request and not emptied while its request is pending.
C33_BusyIffPending ==
    /\ [](isEngineBusy <=> currentEvalPromise # NoCaller)
    /\ [][\A p \in Procs :
            (currentEvalPromise = p /\ currentEvalPromise' # p) => pc'[p] \in Settled]_vars

\* C34: timeoutRef holds at most one timer, an armed timer is that of the request in
\* the pending slot, and a timer that fires rejects the request that armed it and no
\* other.
C34_TimerRejectsItsOwnRequest ==
    /\ [](timeoutRef # NoTimer => currentEvalPromise = timeoutRef.owner)
    /\ [][\A p \in Procs :
            (pc[p] = "pending" /\ pc'[p] = "rejected" /\ err'[p] = "timeout")
                => timeoutRef.owner = p]_vars

\* a request was accepted while the timer of an earlier one was armed, and it was
\* its own timer that rejected it: the earlier request is still pending
C34_Witness ==
    \E p \in Callers, q \in Callers :
        /\ p < q
        /\ pc[p] = "pending"
        /\ pc[q] = "rejected" /\ err[q] = "timeout"

\* the info lines of the engine that carry a score
ScoreLines == {toks \in EngineLines : toks[1] = "info" /\ \E i \in 1..Len(toks) : toks[i] = "score"}

\* the n-th token after the first token word of a line
TokenAfter(toks, word, n) ==
    LET i == CHOOSE j \in 1..Len(toks) : toks[j] = word /\ \A k \in 1..(j - 1) : toks[k] # word
    IN  toks[i + n]

\* what a score line says: its value under score or under mate, and its depth
Said(toks) ==
    LET value == Some(IntOf[TokenAfter(toks, "score", 2)])
    IN  [score |-> IF TokenAfter(toks, "score", 1) = "cp" THEN value ELSE Undefined,
         mate |-> IF TokenAfter(toks, "score", 1) = "mate" THEN value ELSE Undefined,
         depth |-> IF \E i \in 1..Len(toks) : toks[i] = "depth"
                   THEN Some(IntOf[TokenAfter(toks, "depth", 1)]) ELSE Undefined]

\* score, mate and depth of a result
Verdict(r) == [score |-> r.score, mate |-> r.mate, depth |-> r.depth]

\* the parsing half of C35: after a score line the accumulator holds what that line
\* says, with the depth of that line or none; no other step gives the accumulator a
\* score, a mate or a depth; and a request is resolved with what the accumulator holds.
LastScoreLineWins ==
    [][/\ \A toks \in ScoreLines, t \in searches \cup {NoTag} :
            OnMessage(toks, t) =>
                /\ currentEvalRef' # Undefined
                /\ \A acc \in currentEvalRef' : Verdict(acc) = Said(toks)
       /\ (\A toks \in ScoreLines, t \in searches \cup {NoTag} : ~OnMessage(toks, t))
            => \/ currentEvalRef' = Undefined
               \/ /\ currentEvalRef # Undefined
                  /\ \A acc \in currentEvalRef, new \in currentEvalRef' :
                        Verdict(new) = Verdict(acc)
       /\ \A p \in Procs :
            (pc[p] = "pending" /\ pc'[p] = "resolved")
                => \A r \in result'[p] :
                        Verdict(r) = Verdict(Spread(currentEvalRef))]_vars

\* C35: the score or mate of a delivered result is that of the last score line of the
\* request's own search received before the completion line, and the depth is the
\* depth of that same line, absent if the line has none.
C35_ResultIsTheLastScoreLine ==
    /\ LastScoreLineWins
    /\ [][\A p \in Procs :
            (pc[p] = "pending" /\ pc'[p] = "resolved")
                => \A r \in result'[p] :
                        (r.score # Undefined \/ r.mate # Undefined \/ r.depth # Undefined)
                            => tag[p] \in Spread(currentEvalRef).src]_vars

\* C36: the step in which the evaluation timer fires rejects the pending request with
\* the timeout error, leaves busy flag, pending slot and accumulator cleared, and posts
\* one stop command and nothing else, so that the stop precedes the position and go
\* commands of any later request.
C36_TimeoutRejectsClearsAndStops ==
    [][TimerFire =>
        LET p == timeoutRef.owner
        IN  /\ pc[p] = "pending" /\ pc'[p] = "rejected" /\ err'[p] = "timeout"
            /\ ~isEngineBusy' /\ currentEvalPromise' = NoCaller
            /\ currentEvalRef' = Undefined
            /\ out' = <<Cmd("stop", p, 0)>>]_vars

\* the lines the worker of the service module is sent back
ServiceLines ==
    {<<"readyok">>, <<"info", "depth", "3", "score", "cp", "30">>, <<"info", "score", "mate", "-1">>,
     <<"bestmove", "e2e4">>}

\* clients that call evaluatePosition of the service module, one call overlapping another
ServiceNext ==
    \/ \E c \in ServiceCalls, mt \in {MoveTime, DefaultMovetime} : EvaluatePosition(c, mt)
    \/ \E toks \in ServiceLines : ServiceOnMessage(toks)
    \/ \E c \in ServiceCalls : ServiceTimerFire(c)
    \/ ServiceOnError
    \/ CleanupStockfish

ServiceSpec == Init /\ [][ServiceNext]_vars

\* C37: the completion handle of a call leaves the slot only in a step that settles
\* that call; a call is resolved only while its own handle is in the slot, and it is
\* rejected only while its own timer is armed.
C37_CallsSettleIndependently ==
    [][\A c \in ServiceCalls :
        /\ (currentEvaluation = c /\ currentEvaluation' = NoCaller)
                => (epc[c] = "pending" /\ epc'[c] \in Settled)
        /\ (epc[c] = "pending" /\ epc'[c] = "resolved") => currentEvaluation = c
        /\ (epc[c] = "pending" /\ epc'[c] = "rejected") => timeoutId[c] # 0]_vars

====
